---- MODULE Spec2Model ----
(***************************************************************************)
(* The parallel chunked downloader of src/main.rs (download_file), and the *)
(* program around it (main).                                               *)
(*                                                                         *)
(* download_file sends one plain GET to learn the content length, spawns   *)
(* one tokio task per byte range, each of which sends a ranged GET, reads  *)
(* the body, takes the tokio Mutex around the shared Vec<u8> and appends   *)
(* its chunk; the caller then awaits try_join_all over the JoinHandles and *)
(* unwraps the Arc.                                                        *)
(*                                                                         *)
(* Sizes are scaled: the resource has at most MaxTotal bytes and the chunk *)
(* size (CHUNK_SIZE, 10 MiB in the source) ranges over 1..MaxChunk, with   *)
(* at most MaxTasks ranges, plus the documented example of 25 bytes in     *)
(* chunks of 10.  The byte at offset k of the resource has the value k, so *)
(* a buffer identifies where each of its bytes came from.                  *)
(*                                                                         *)
(* Integer width: total_size is a u64.  Vec::with_capacity(total_size as   *)
(* usize) at line 130 panics (64-bit target) if total_size > isize::MAX, so *)
(* the sum i + CHUNK_SIZE - 1 of line 134 is only ever computed for        *)
(* total_size < 2^63 and cannot wrap; unbounded integers model it exactly. *)
(*                                                                         *)
(* Specifications:                                                         *)
(*   Spec      one call of download_file, from its first statement;        *)
(*   FairSpec  Spec under fair scheduling;                                 *)
(*   ConcSpec  two calls of download_file running concurrently;            *)
(*   MainSpec  a run of main, with its call of download_file.              *)
(***************************************************************************)
EXTENDS Integers, Sequences, FiniteSets, Bags, TLC

VARIABLES
    pc,            \* position of download_file: start, spawn, join, unwrap, returned
    resource_len,  \* length in bytes of the remote resource
    chunk_size,    \* CHUNK_SIZE
    total_size,    \* response.content_length().unwrap_or(0)
    i,             \* loop variable of the spawn loop: start of the next range
    tasks,         \* the spawned tasks, in spawn order (handles)
    data,          \* the Vec<u8> inside Arc<Mutex<..>>
    owner,         \* for each byte of data, the task that appended it (history)
    lock,          \* holder of the tokio Mutex, 0 when free
    strong,        \* strong count of the Arc
    requests,      \* bag of the Range headers of all GETs sent (NoRange: none)
    result,        \* what download_file returned
    \* A second, concurrent call of download_file (ConcSpec).
    other,         \* the locals of the call that is not stepping, or NoCall
    active,        \* the call (1 or 2) whose locals the variables above hold
    \* main.
    step,          \* position of main
    output_file,   \* Option<File>: "none" or "open"
    file,          \* the file at the output path: [exists, content]
    formats,       \* video.formats
    audio,         \* (audio_file_size, audio_url)
    input,         \* the line read from stdin, a sequence of characters
    uploaded,      \* the buffers sent in transcription requests
    res            \* the transcription received

\* The locals of one call of download_file.
call == <<pc, resource_len, chunk_size, total_size, i, tasks, data, owner,
          lock, strong, requests, result>>

\* The state of main outside its call of download_file.
program == <<step, output_file, file, formats, audio, input, uploaded, res>>

\* Everything a step of a call of download_file leaves alone.
outside == <<other, active, program>>

vars == <<pc, resource_len, chunk_size, total_size, i, tasks, data, owner,
          lock, strong, requests, result, other, active, program>>

----------------------------------------------------------------------------
\* Bounds of the model.
MaxTotal == 6
MaxChunk == 3
MaxTasks == 3

\* Bounds of ConcSpec: both calls use chunks of ConcChunk bytes on resources
\* of 1..ConcTotal bytes.
ConcTotal == 2
ConcChunk == 1

\* Bounds of MainSpec: the video has at most MaxFormats formats, and the
\* audio resource has at most MainTotal bytes, fetched in chunks of ConcChunk.
MaxFormats == 2
MainTotal == 2

\* 25.0 * 1000.0 * 1000.0: the sizes main compares are whole numbers of
\* bytes far below 2^53, which f64 represents exactly.
MaxTranscribeSize == 25000000

\* Chunk size and resource length of the documented example.
ExampleChunk == 10
ExampleTotal == 25

\* The (resource length, chunk size) pairs a run starts from: every pair
\* within the bounds that gives at most MaxTasks ranges, and the example.
Configs ==
    {cfg \in (0..MaxTotal) \X (1..MaxChunk) : cfg[1] <= cfg[2] * MaxTasks}
        \cup {<<ExampleTotal, ExampleChunk>>}

NoRange == "none"
ErrorByte == 0 - 1

----------------------------------------------------------------------------
\* Helpers.

Min(a, b) == IF a < b THEN a ELSE b

\* Mutant of RangeEnd: the end is taken exclusive (the - 1 is forgotten).
RangeEnd_Exclusive(start, chunk, total) == Min(start + chunk, total - 1)

\* std::cmp::min(i + CHUNK_SIZE as u64 - 1, total_size - 1)
RangeEnd(start, chunk, total) == Min(start + chunk - 1, total - 1)

\* Mutant of RangeHeader: the two bounds are written in the wrong order.
RangeHeader_Swapped(start, end) ==
    "bytes=" \o ToString(end) \o "-" \o ToString(start)

\* format!("bytes={}-{}", i, end)
RangeHeader(start, end) == "bytes=" \o ToString(start) \o "-" \o ToString(end)

\* The bytes start..end (inclusive) of the resource.
Slice(start, end) == [k \in 1..(end - start + 1) |-> start + k - 1]

\* The bodies a server may send for a ranged request: with a partial-content
\* status the requested slice, or a body one byte short of it; with an error
\* status an error page.
Bodies(status, start, end) ==
    IF status = "partial"
    THEN {Slice(start, end), Slice(start, end - 1)}
    ELSE {<<ErrorByte>>}

\* Result<Vec<u8>, Box<dyn std::error::Error>>
NoResult == [kind |-> "none", buf |-> <<>>, error |-> "none"]
Ok(buf) == [kind |-> "Ok", buf |-> buf, error |-> "none"]
Err(e) == [kind |-> "Err", buf |-> <<>>, error |-> e]

Settled(t) == tasks[t].pc \in {"ok", "failed"}

NewTask(start, end) ==
    [start |-> start, end |-> end, range |-> RangeHeader(start, end),
     pc |-> "spawned", status |-> "none", chunk |-> <<>>, pos |-> 0]

\* No second call.
NoCall == [pc |-> "none"]

\* No file at the output path.
NoFile == [exists |-> FALSE, content |-> ""]

\* main is inside download_file(&audio_url).await (line 86): it was started
\* without --output, a track was selected and the user answered y.
InDownload ==
    /\ step = "download"
    /\ output_file = "none"
    /\ file = NoFile
    /\ formats = <<>>
    /\ audio = [size |-> 1, url |-> "u1"]
    /\ input = <<"y", "\n">>
    /\ uploaded = <<>>
    /\ res = ""

----------------------------------------------------------------------------
Init ==
    /\ other = NoCall
    /\ active = 1
    /\ InDownload
    /\ pc = "start"
    /\ \E cfg \in Configs : resource_len = cfg[1] /\ chunk_size = cfg[2]
    /\ total_size = 0
    /\ i = 0
    /\ tasks = <<>>
    /\ data = <<>>
    /\ owner = <<>>
    /\ lock = 0
    /\ strong = 0
    /\ requests = EmptyBag
    /\ result = NoResult

\* client.get(url).send().await? fails: download_file returns the error.
InitialGetFails ==
    /\ pc = "start"
    /\ requests' = requests (+) SetToBag({NoRange})
    /\ pc' = "returned"
    /\ result' = Err("send")
    /\ UNCHANGED <<resource_len, chunk_size, total_size, i, tasks, data, owner,
                   lock, strong>>

\* Mutant of InitialGet: a missing content length defaults to one chunk.
InitialGet_DefaultChunk ==
    /\ pc = "start"
    /\ requests' = requests (+) SetToBag({NoRange})
    /\ \E content_length \in {<<resource_len>>, <<>>} :
          total_size' = IF content_length = <<>> THEN chunk_size
                        ELSE content_length[1]
    /\ strong' = 1
    /\ i' = 0
    /\ pc' = "spawn"
    /\ UNCHANGED <<resource_len, chunk_size, tasks, data, owner, lock, result>>

\* client.get(url).send().await? succeeds; content_length().unwrap_or(0);
\* Arc::new(Mutex::new(Vec::with_capacity(..))); handles = vec![].
InitialGet ==
    /\ pc = "start"
    /\ requests' = requests (+) SetToBag({NoRange})
    /\ \E content_length \in {<<resource_len>>, <<>>} :   \* Some(n) or None
          total_size' = IF content_length = <<>> THEN 0 ELSE content_length[1]
    /\ strong' = 1
    /\ i' = 0
    /\ pc' = "spawn"
    /\ UNCHANGED <<resource_len, chunk_size, tasks, data, owner, lock, result>>

\* Mutant of Spawn: the loop runs over 0..=total_size.
Spawn_Inclusive ==
    /\ pc = "spawn"
    /\ i <= total_size
    /\ Len(tasks) <= MaxTasks
    /\ tasks' = Append(tasks, NewTask(i, RangeEnd(i, chunk_size, total_size)))
    /\ strong' = strong + 1
    /\ i' = i + chunk_size
    /\ UNCHANGED <<pc, resource_len, chunk_size, total_size, data, owner, lock,
                   requests, result>>

\* One iteration of for i in (0..total_size).step_by(CHUNK_SIZE).
Spawn ==
    /\ pc = "spawn"
    /\ i < total_size
    /\ tasks' = Append(tasks, NewTask(i, RangeEnd(i, chunk_size, total_size)))
    /\ strong' = strong + 1
    /\ i' = i + chunk_size
    /\ UNCHANGED <<pc, resource_len, chunk_size, total_size, data, owner, lock,
                   requests, result>>

\* The loop ends; download_file reaches try_join_all(handles).await.
SpawnDone ==
    /\ pc = "spawn"
    /\ i >= total_size
    /\ pc' = "join"
    /\ UNCHANGED <<resource_len, chunk_size, total_size, i, tasks, data, owner,
                   lock, strong, requests, result>>

----------------------------------------------------------------------------
\* The body of a spawned task (lines 141-153).

\* Mutant of TaskSend: the task takes the Mutex before it sends its request.
TaskSend_UnderLock(t) ==
    /\ tasks[t].pc = "spawned"
    /\ lock = 0
    /\ lock' = t
    /\ requests' = requests (+) SetToBag({tasks[t].range})
    /\ tasks' = [tasks EXCEPT ![t].pc = "sent"]
    /\ UNCHANGED <<pc, resource_len, chunk_size, total_size, i, data, owner,
                   strong, result>>

\* The task is polled for the first time: client.get(&url).header("Range",
\* range).send() puts the request on the wire.
TaskSend(t) ==
    /\ tasks[t].pc = "spawned"
    /\ requests' = requests (+) SetToBag({tasks[t].range})
    /\ tasks' = [tasks EXCEPT ![t].pc = "sent"]
    /\ UNCHANGED <<pc, resource_len, chunk_size, total_size, i, data, owner,
                   lock, strong, result>>

\* Mutant of TaskFail: the failing task keeps its clone of the Arc.
TaskFail_KeepsArc(t) ==
    /\ tasks' = [tasks EXCEPT ![t].pc = "failed"]
    /\ strong' = strong

\* The task's future completes with Err: the `?` of line 146 or 148 returns
\* the error as the task's output, and the future with its Arc clone is dropped.
TaskFail(t) ==
    /\ tasks' = [tasks EXCEPT ![t].pc = "failed"]
    /\ strong' = strong - 1

\* .send().await? resolves: a transport error, or response headers with any
\* status (reqwest reports an HTTP error status as Ok(response)).
TaskSendError(t) ==
    /\ tasks[t].pc = "sent"
    /\ TaskFail(t)
    /\ UNCHANGED <<pc, resource_len, chunk_size, total_size, i, data, owner,
                   lock, requests, result>>

TaskResponse(t) ==
    /\ tasks[t].pc = "sent"
    /\ \E status \in {"partial", "error"} :
          tasks' = [tasks EXCEPT ![t].pc = "body", ![t].status = status]
    /\ UNCHANGED <<pc, resource_len, chunk_size, total_size, i, data, owner,
                   lock, strong, requests, result>>

\* .bytes().await? resolves: a transport error while reading the body, or
\* the whole body, whatever its length.
TaskBodyError(t) ==
    /\ tasks[t].pc = "body"
    /\ TaskFail(t)
    /\ UNCHANGED <<pc, resource_len, chunk_size, total_size, i, data, owner,
                   lock, requests, result>>

TaskBody(t) ==
    /\ tasks[t].pc = "body"
    /\ \E body \in Bodies(tasks[t].status, tasks[t].start, tasks[t].end) :
          tasks' = [tasks EXCEPT ![t].pc = "lock", ![t].chunk = body]
    /\ UNCHANGED <<pc, resource_len, chunk_size, total_size, i, data, owner,
                   lock, strong, requests, result>>

\* Mutant of CanLock: the lock excludes nobody.
CanLock_Always(t) == TRUE

\* Whether data.lock().await can complete for task t.
CanLock(t) == lock = 0

\* let mut data = data.lock().await;
TaskLock(t) ==
    /\ tasks[t].pc = "lock"
    /\ CanLock(t)
    /\ lock' = t
    /\ tasks' = [tasks EXCEPT ![t].pc = "append"]
    /\ UNCHANGED <<pc, resource_len, chunk_size, total_size, i, data, owner,
                   strong, requests, result>>

\* data.extend_from_slice(&chunk), one byte of the copy at a time.
TaskAppend(t) ==
    /\ tasks[t].pc = "append"
    /\ tasks[t].pos < Len(tasks[t].chunk)
    /\ data' = Append(data, tasks[t].chunk[tasks[t].pos + 1])
    /\ owner' = Append(owner, t)
    /\ tasks' = [tasks EXCEPT ![t].pos = @ + 1]
    /\ UNCHANGED <<pc, resource_len, chunk_size, total_size, i, lock, strong,
                   requests, result>>

\* Ok(()) at line 152: the guard is dropped (the Mutex is released), the
\* future completes and its Arc clone is dropped.
TaskOk(t) ==
    /\ tasks[t].pc = "append"
    /\ tasks[t].pos = Len(tasks[t].chunk)
    /\ lock' = IF lock = t THEN 0 ELSE lock
    /\ tasks' = [tasks EXCEPT ![t].pc = "ok"]
    /\ strong' = strong - 1
    /\ UNCHANGED <<pc, resource_len, chunk_size, total_size, i, data, owner,
                   requests, result>>

----------------------------------------------------------------------------
\* The rest of download_file (lines 158-163).

\* What awaiting the JoinHandle of task t yields.  A JoinHandle resolves to
\* Err(JoinError) only when its task panicked or was aborted, which the task
\* body never does; a task that returned Err(e) resolves to Ok(Err(e)).
JoinOutput(t) ==
    IF Settled(t)
    THEN [join |-> "Ok", inner |-> IF tasks[t].pc = "ok" THEN "Ok" ELSE "Err"]
    ELSE [join |-> "Pending", inner |-> "none"]

\* Mutant of JoinReady: the join is over as soon as one handle has resolved.
JoinReady_Any == \E t \in DOMAIN tasks : JoinOutput(t).join = "Ok"

\* Mutant of JoinReady: the join only counts the tasks that returned Ok(()).
JoinReady_AllOk == \A t \in DOMAIN tasks : tasks[t].pc = "ok"

\* try_join_all(handles) is ready with Ok(vec) once every handle has
\* resolved (no handle resolves to Err, see JoinOutput).
JoinReady == \A t \in DOMAIN tasks : JoinOutput(t).join = "Ok"

\* futures::future::try_join_all(handles).await?; the Vec of the tasks' own
\* results is dropped unread.
Join ==
    /\ pc = "join"
    /\ JoinReady
    /\ pc' = "unwrap"
    /\ UNCHANGED <<resource_len, chunk_size, total_size, i, tasks, data, owner,
                   lock, strong, requests, result>>

\* Arc::try_unwrap(data).map_err(|_| "Failed to unwrap Arc")?.into_inner()
Unwrap ==
    /\ pc = "unwrap"
    /\ result' = IF strong = 1 THEN Ok(data) ELSE Err("Failed to unwrap Arc")
    /\ pc' = "returned"
    /\ UNCHANGED <<resource_len, chunk_size, total_size, i, tasks, data, owner,
                   lock, strong, requests>>

\* Every step of a call of download_file leaves the rest of the program and
\* the other call alone.
Next ==
    \/ InitialGetFails /\ UNCHANGED outside
    \/ InitialGet /\ UNCHANGED outside
    \/ Spawn /\ UNCHANGED outside
    \/ SpawnDone /\ UNCHANGED outside
    \/ \E t \in DOMAIN tasks : TaskSend(t) /\ UNCHANGED outside
    \/ \E t \in DOMAIN tasks : TaskSendError(t) /\ UNCHANGED outside
    \/ \E t \in DOMAIN tasks : TaskResponse(t) /\ UNCHANGED outside
    \/ \E t \in DOMAIN tasks : TaskBodyError(t) /\ UNCHANGED outside
    \/ \E t \in DOMAIN tasks : TaskBody(t) /\ UNCHANGED outside
    \/ \E t \in DOMAIN tasks : TaskLock(t) /\ UNCHANGED outside
    \/ \E t \in DOMAIN tasks : TaskAppend(t) /\ UNCHANGED outside
    \/ \E t \in DOMAIN tasks : TaskOk(t) /\ UNCHANGED outside
    \/ Join /\ UNCHANGED outside
    \/ Unwrap /\ UNCHANGED outside

Spec == Init /\ [][Next]_vars

----------------------------------------------------------------------------
\* Two concurrent calls of download_file.  Everything a call works on is a
\* local of the call (lines 126-131: client, response, total_size, data,
\* handles) or is moved into its tasks (lines 137-139); the crate has no
\* static.  The variables hold the locals of the call that steps, `other`
\* those of the call that does not, and Switch passes from one to the other.

CallLocals ==
    [pc |-> pc, resource_len |-> resource_len, chunk_size |-> chunk_size,
     total_size |-> total_size, i |-> i, tasks |-> tasks, data |-> data,
     owner |-> owner, lock |-> lock, strong |-> strong,
     requests |-> requests, result |-> result]

\* The locals of a call that has not run its first statement.
NewCall(n, c) ==
    [pc |-> "start", resource_len |-> n, chunk_size |-> c,
     total_size |-> 0, i |-> 0, tasks |-> <<>>, data |-> <<>>,
     owner |-> <<>>, lock |-> 0, strong |-> 0,
     requests |-> EmptyBag, result |-> NoResult]

ConcInit ==
    /\ active = 1
    /\ InDownload
    /\ \E n1, n2 \in 1..ConcTotal :
          /\ resource_len = n1
          /\ other = NewCall(n2, ConcChunk)
    /\ chunk_size = ConcChunk
    /\ pc = "start"
    /\ total_size = 0
    /\ i = 0
    /\ tasks = <<>>
    /\ data = <<>>
    /\ owner = <<>>
    /\ lock = 0
    /\ strong = 0
    /\ requests = EmptyBag
    /\ result = NoResult

\* Mutant of Switch: the buffer, with its lock, is one static shared by the
\* calls.
Switch_SharedBuffer ==
    /\ other # NoCall
    /\ pc' = other.pc
    /\ resource_len' = other.resource_len
    /\ chunk_size' = other.chunk_size
    /\ total_size' = other.total_size
    /\ i' = other.i
    /\ tasks' = other.tasks
    /\ strong' = other.strong
    /\ requests' = other.requests
    /\ result' = other.result
    /\ other' = CallLocals
    /\ active' = 3 - active
    /\ UNCHANGED <<data, owner, lock, program>>

\* The scheduler passes from a future of one call to a future of the other.
Switch ==
    /\ other # NoCall
    /\ pc' = other.pc
    /\ resource_len' = other.resource_len
    /\ chunk_size' = other.chunk_size
    /\ total_size' = other.total_size
    /\ i' = other.i
    /\ tasks' = other.tasks
    /\ data' = other.data
    /\ owner' = other.owner
    /\ lock' = other.lock
    /\ strong' = other.strong
    /\ requests' = other.requests
    /\ result' = other.result
    /\ other' = CallLocals
    /\ active' = 3 - active
    /\ UNCHANGED program

ConcNext ==
    \/ Next
    \/ Switch

ConcSpec == ConcInit /\ [][ConcNext]_vars

----------------------------------------------------------------------------
\* main (lines 31-121).

None == <<>>
Some(v) == <<v>>

\* The formats a video may report: Format { ext, filesize, filesize_approx,
\* url }, every field an Option.  The k-th format of a list has the url
\* "u<k>", or none.
FormatsAt(k) ==
    [ext : {None, Some("m4a"), Some("webm")},
     filesize : {None, Some(2), Some(MaxTranscribeSize)},
     filesize_approx : {None, Some(1)},
     url : {None, Some("u" \o ToString(k))}]

FormatLists ==
    LET all == UNION {FormatsAt(k) : k \in 1..MaxFormats}
    IN  UNION {{fs \in [1..n -> all] : \A k \in 1..n : fs[k] \in FormatsAt(k)} :
                  n \in 0..MaxFormats}

\* The lines stdin may deliver (read_line keeps the newline; no line at EOF).
Inputs ==
    {<<"y", "\n">>, <<"Y", "\n">>, <<" ", "y", " ", "\n">>, <<"n", "\n">>,
     <<"\n">>, <<>>, <<"y", "e", "s", "\n">>, <<"y", " ", "y", "\n">>}

\* The texts the transcription API may return.
Transcripts == {"", "transcript"}

NoAudio == [size |-> 0, url |-> ""]

\* |f| f.ext.as_ref().map_or(false, |ext| ext == "m4a")
IsM4a(f) == f.ext # None /\ f.ext[1] = "m4a"

\* |f| (f.filesize.map(|v| v as f64).or(f.filesize_approx), f.url)
SizeAndUrl(f) ==
    [size |-> IF f.filesize # None THEN f.filesize ELSE f.filesize_approx,
     url |-> f.url]

\* The filter, map, filter, map of lines 59-62.
Candidates(fs) ==
    LET m4a == SelectSeq(fs, IsM4a)
        pairs == [k \in 1..Len(m4a) |-> SizeAndUrl(m4a[k])]
        whole == SelectSeq(pairs, LAMBDA q : q.size # None /\ q.url # None)
    IN  [k \in 1..Len(whole) |-> [size |-> whole[k].size[1],
                                   url |-> whole[k].url[1]]]

\* Mutant of NotAfter: the comparison is reversed.
NotAfter_Reversed(a, b) == a.size >= b.size

\* f64::total_cmp(&a.0, &b.0) is not Greater: a may stay before b.
NotAfter(a, b) == a.size <= b.size

\* x put into the sorted sequence s behind everything that may stay before it.
SortedInsert(s, x) ==
    LET n == Cardinality({k \in 1..Len(s) : NotAfter(s[k], x)})
    IN  SubSeq(s, 1, n) \o <<x>> \o SubSeq(s, n + 1, Len(s))

RECURSIVE SortedBy(_)
\* .sorted_by(..): a stable sort.
SortedBy(s) ==
    IF s = <<>> THEN <<>>
    ELSE SortedInsert(SortedBy(SubSeq(s, 1, Len(s) - 1)), s[Len(s)])

\* Mutant of TooLarge: the limit itself is let through.
TooLarge_Strict(size) == size > MaxTranscribeSize

\* audio_file_size >= 25.0 * 1000.0 * 1000.0
TooLarge(size) == size >= MaxTranscribeSize

Whitespace == {" ", "\n", "\t", "\r"}

RECURSIVE TrimStart(_)
TrimStart(s) ==
    IF s # <<>> /\ s[1] \in Whitespace THEN TrimStart(Tail(s)) ELSE s

RECURSIVE TrimEnd(_)
TrimEnd(s) ==
    IF s # <<>> /\ s[Len(s)] \in Whitespace
    THEN TrimEnd(SubSeq(s, 1, Len(s) - 1)) ELSE s

\* str::trim
Trim(s) == TrimEnd(TrimStart(s))

\* str::to_lowercase, on the characters of Inputs
ToLowercase(s) ==
    [k \in 1..Len(s) |-> CASE s[k] = "Y" -> "y"
                            [] s[k] = "N" -> "n"
                            [] OTHER -> s[k]]

\* input.trim().to_lowercase() != "y" is false
Confirmed(line) == ToLowercase(Trim(line)) = <<"y">>

\* A run of main starts with the file at the output path absent or holding
\* an earlier transcript, and with download_file not called yet.
MainInit ==
    /\ other = NoCall
    /\ active = 1
    /\ step = "args"
    /\ output_file = "none"
    /\ file \in {NoFile, [exists |-> TRUE, content |-> "old"]}
    /\ formats = <<>>
    /\ audio = NoAudio
    /\ input = <<>>
    /\ uploaded = <<>>
    /\ res = ""
    /\ pc = "idle"
    /\ resource_len \in 0..MainTotal
    /\ chunk_size = ConcChunk
    /\ total_size = 0
    /\ i = 0
    /\ tasks = <<>>
    /\ data = <<>>
    /\ owner = <<>>
    /\ lock = 0
    /\ strong = 0
    /\ requests = EmptyBag
    /\ result = NoResult

\* An unwrap or expect fails: main panics.
Panic(at) ==
    /\ step = at
    /\ step' = "panic"
    /\ UNCHANGED <<call, other, active, output_file, file, formats, audio,
                   input, uploaded, res>>

\* Lines 32-37: var("OPENAI_API_KEY").expect("Missing API key") is evaluated
\* whether or not --api-key is given.
ParseArgs ==
    /\ step = "args"
    /\ step' = "create_output"
    /\ UNCHANGED <<call, other, active, output_file, file, formats, audio,
                   input, uploaded, res>>

\* Lines 39-47 without --output, or with a path expanduser rejects.
NoOutput ==
    /\ step = "create_output"
    /\ output_file' = "none"
    /\ step' = "metadata"
    /\ UNCHANGED <<call, other, active, file, formats, audio, input, uploaded,
                   res>>

\* Lines 39-47 with --output: File::create creates the file, or truncates it
\* when it exists.
CreateOutput ==
    /\ step = "create_output"
    /\ output_file' = "open"
    /\ file' = [exists |-> TRUE, content |-> ""]
    /\ step' = "metadata"
    /\ UNCHANGED <<call, other, active, formats, audio, input, uploaded, res>>

\* Lines 49-57: the metadata arrive, with formats (without them, or without
\* metadata, main panics).
FetchMetadata ==
    /\ step = "metadata"
    /\ formats' \in FormatLists
    /\ step' = "select"
    /\ UNCHANGED <<call, other, active, output_file, file, audio, input,
                   uploaded, res>>

\* Lines 55-65: the first of the candidates sorted by size; formats is
\* consumed by into_iter.
SelectAudio ==
    /\ step = "select"
    /\ Candidates(formats) # <<>>
    /\ audio' = SortedBy(Candidates(formats))[1]
    /\ formats' = <<>>
    /\ step' = "check_size"
    /\ UNCHANGED <<call, other, active, output_file, file, input, uploaded,
                   res>>

\* .expect("No suitable audio tracks found")
NoAudioTrack ==
    /\ Candidates(formats) = <<>>
    /\ Panic("select")

\* Lines 67-73.
CheckSize ==
    /\ step = "check_size"
    /\ step' = IF TooLarge(audio.size) THEN "exit" ELSE "prompt"
    /\ UNCHANGED <<call, other, active, output_file, file, formats, audio,
                   input, uploaded, res>>

\* Lines 75-82: the prompt is answered; any answer but y ends main (main
\* panics without a title or a readable line).
Prompt ==
    /\ step = "prompt"
    /\ input' \in Inputs
    /\ step' = IF Confirmed(input') THEN "download" ELSE "declined"
    /\ UNCHANGED <<call, other, active, output_file, file, formats, audio,
                   uploaded, res>>

\* Line 86: download_file(&audio_url) is called.
StartDownload ==
    /\ step = "download"
    /\ pc = "idle"
    /\ pc' = "start"
    /\ UNCHANGED <<resource_len, chunk_size, total_size, i, tasks, data, owner,
                   lock, strong, requests, result, other, active, program>>

\* Lines 86-89: download_file returned Ok; .expect passes.
DownloadDone ==
    /\ step = "download"
    /\ pc = "returned"
    /\ result.kind = "Ok"
    /\ step' = "transcribe"
    /\ UNCHANGED <<call, other, active, output_file, file, formats, audio,
                   input, uploaded, res>>

\* .expect("Failed to download audio track")
DownloadFailed ==
    /\ pc = "returned"
    /\ result.kind = "Err"
    /\ Panic("download")

\* Lines 91-114: the request with the buffer is sent and answered.
Transcribe ==
    /\ step = "transcribe"
    /\ uploaded' = Append(uploaded, result.buf)
    /\ res' \in Transcripts
    /\ step' = "write"
    /\ UNCHANGED <<call, other, active, output_file, file, formats, audio,
                   input>>

\* The request is sent and fails: .unwrap() panics.
TranscribeFails ==
    /\ step = "transcribe"
    /\ uploaded' = Append(uploaded, result.buf)
    /\ step' = "panic"
    /\ UNCHANGED <<call, other, active, output_file, file, formats, audio,
                   input, res>>

\* Lines 116-120: file.write_all(res.as_bytes()) if there is an output file
\* (main panics if the write fails).
WriteOutput ==
    /\ step = "write"
    /\ file' = IF output_file = "open"
               THEN [exists |-> TRUE, content |-> res] ELSE file
    /\ step' = "done"
    /\ UNCHANGED <<call, other, active, output_file, formats, audio, input,
                   uploaded, res>>

MainNext ==
    \/ ParseArgs
    \/ NoOutput
    \/ CreateOutput
    \/ FetchMetadata
    \/ SelectAudio
    \/ NoAudioTrack
    \/ CheckSize
    \/ Prompt
    \/ StartDownload
    \/ DownloadDone
    \/ DownloadFailed
    \/ Transcribe
    \/ TranscribeFails
    \/ WriteOutput
    \/ \E at \in {"args", "create_output", "metadata", "prompt", "write"} :
          Panic(at)
    \/ Next

MainSpec == MainInit /\ [][MainNext]_vars

----------------------------------------------------------------------------
\* The steps of download_file itself, and the steps of its spawned tasks.
DownloadStep ==
    /\ \/ InitialGetFails \/ InitialGet \/ Spawn \/ SpawnDone
       \/ Join \/ Unwrap
    /\ UNCHANGED outside

TaskStep ==
    /\ \E t \in DOMAIN tasks :
          \/ TaskSend(t) \/ TaskSendError(t) \/ TaskResponse(t)
          \/ TaskBodyError(t) \/ TaskBody(t)
          \/ TaskLock(t) \/ TaskAppend(t) \/ TaskOk(t)
    /\ UNCHANGED outside

\* The tokio runtime polls every woken future again, the tokio Mutex hands
\* the lock to a waiter once it is free, and every request sent is answered
\* or fails: the caller keeps stepping while it can, and so do the tasks.
FairSpec == Spec /\ WF_vars(DownloadStep) /\ WF_vars(TaskStep)

----------------------------------------------------------------------------
\* Operators the properties are stated with.

RECURSIVE ConcatChunks(_)
\* The chunks fetched by tasks 1..n, concatenated in range order.
ConcatChunks(n) ==
    IF n = 0 THEN <<>> ELSE ConcatChunks(n - 1) \o tasks[n].chunk

RECURSIVE SumLengths(_)
\* The sum of end - start + 1 over tasks 1..n.
SumLengths(n) ==
    IF n = 0 THEN 0
    ELSE SumLengths(n - 1) + (tasks[n].end - tasks[n].start + 1)

RangeLen(t) == tasks[t].end - tasks[t].start + 1

\* The body of task t has arrived.
HasBody(t) == tasks[t].pc \in {"lock", "append", "ok"}

\* The bytes of data that task t appended, in buffer order.
Deposited(t) ==
    LET idx == SelectSeq([k \in 1..Len(owner) |-> k], LAMBDA k : owner[k] = t)
    IN  [j \in 1..Len(idx) |-> data[idx[j]]]

Returned == pc = "returned"
SpawnLoopOver == pc \in {"join", "unwrap", "returned"} /\ result.error # "send"

----------------------------------------------------------------------------
\* C1: the buffer of a successful download is the concatenation of the
\* tasks' chunks in ascending range-start order, whatever the order in which
\* the tasks completed; stated for the runs in which every task received
\* exactly the bytes of its range with a partial-content status.  The code
\* appends in lock-acquisition order, so this is violated.
C1_AssemblyInRangeOrder ==
    (/\ result.kind = "Ok"
     /\ \A t \in DOMAIN tasks :
           /\ tasks[t].pc = "ok"
           /\ tasks[t].status = "partial"
           /\ tasks[t].chunk = Slice(tasks[t].start, tasks[t].end))
        => result.buf = ConcatChunks(Len(tasks))

\* C2: a run in which some chunk task ended in a transport error never
\* returns success.  The code drops the tasks' own results, so this is
\* violated.
C2_ChunkErrorIsFatal ==
    (Returned /\ \E t \in DOMAIN tasks : tasks[t].pc = "failed")
        => result.kind = "Err"

\* C3: the buffer of a successful download has length total_size.  Violated
\* by the code whenever a chunk task failed or delivered a body of another
\* length.
C3_LengthIsTotalSize ==
    result.kind = "Ok" => Len(result.buf) = total_size

\* C4: the computed ranges are non-empty, start at 0, are contiguous (hence
\* ascending and pairwise disjoint), and their lengths sum to the part of
\* [0, total_size) the loop has covered: to total_size once the loop is over.
C4_RangesTile ==
    /\ \A t \in DOMAIN tasks : tasks[t].start <= tasks[t].end
    /\ tasks # <<>> => tasks[1].start = 0
    /\ \A t \in DOMAIN tasks :
          t > 1 => tasks[t].start = tasks[t - 1].end + 1
    /\ \A s, t \in DOMAIN tasks :
          s < t => /\ tasks[s].start < tasks[t].start
                   /\ tasks[s].end < tasks[t].start
    /\ pc = "spawn" => SumLengths(Len(tasks)) = Min(i, total_size)
    /\ SpawnLoopOver => SumLengths(Len(tasks)) = total_size

\* Witness of C4: three ranges, the last one shorter than the others.
C4_Witness ==
    /\ pc = "join"
    /\ Len(tasks) = 3
    /\ RangeLen(1) = chunk_size
    /\ RangeLen(3) < chunk_size

\* The Range header the k-th request (k from 0) must carry.
ExpectedHeader(k) ==
    "bytes=" \o ToString(k * chunk_size) \o "-"
        \o ToString(Min((k + 1) * chunk_size, total_size) - 1)

\* C5: the k-th task carries Range: bytes=<k*chunk_size>-<min((k+1)*
\* chunk_size, total_size) - 1>; there are ceil(total_size / chunk_size)
\* tasks; every range but the last has length chunk_size; each task sends its
\* ranged GET exactly once and no other ranged GET is sent (the only other
\* request is the initial GET without a Range header); total_size =
\* chunk_size gives one range; 25 bytes in chunks of 10 give 0-9, 10-19, 20-24.
C5_OneRangedGetPerRange ==
    /\ \A t \in DOMAIN tasks : tasks[t].range = ExpectedHeader(t - 1)
    /\ \A t \in DOMAIN tasks : t < Len(tasks) => RangeLen(t) = chunk_size
    /\ SpawnLoopOver =>
          Len(tasks) = (total_size + chunk_size - 1) \div chunk_size
    /\ \A t \in DOMAIN tasks :
          CopiesIn(tasks[t].range, requests)
              = IF tasks[t].pc = "spawned" THEN 0 ELSE 1
    /\ BagToSet(requests) \subseteq
          {NoRange} \cup {tasks[t].range : t \in DOMAIN tasks}
    /\ CopiesIn(NoRange, requests) <= 1
    /\ (Returned /\ result.kind = "Ok") =>
          BagCardinality(requests) = Len(tasks) + 1
    /\ (SpawnLoopOver /\ total_size = chunk_size) =>
          /\ Len(tasks) = 1
          /\ tasks[1].start = 0 /\ tasks[1].end = total_size - 1
    /\ (SpawnLoopOver /\ total_size = 25 /\ chunk_size = 10) =>
          [t \in DOMAIN tasks |-> tasks[t].range]
              = <<"bytes=0-9", "bytes=10-19", "bytes=20-24">>

\* Witness of C5: the download of 25 bytes in chunks of 10 has returned with
\* all three ranged requests sent.
C5_Witness ==
    /\ Returned /\ result.kind = "Ok"
    /\ total_size = 25 /\ chunk_size = 10
    /\ \A t \in DOMAIN tasks : CopiesIn(tasks[t].range, requests) = 1
    /\ BagCardinality(requests) = 4

\* C6 as stated: with total_size = 0 a successful download returns the empty
\* buffer and has sent no network request at all.  Violated: total_size is
\* read from the response to the initial GET of line 127.
C6_NoRequestAtAll ==
    (Returned /\ result.kind = "Ok" /\ total_size = 0)
        => (result.buf = <<>> /\ requests = EmptyBag)

\* C6 amended: once the initial GET has succeeded with total_size = 0, no
\* task is spawned, no ranged request is ever sent (the initial GET is the
\* only request of the call), and the call returns Ok with an empty buffer.
C6_NoRangedRequest ==
    (pc # "start" /\ result.error # "send" /\ total_size = 0)
        => /\ tasks = <<>>
           /\ requests = SetToBag({NoRange})
           /\ Returned => result = Ok(<<>>)

\* Witness of C6: an empty resource has been downloaded.
C6_Witness ==
    /\ Returned
    /\ resource_len = 0 /\ total_size = 0
    /\ result = Ok(<<>>)
    /\ requests = SetToBag({NoRange})

\* C7: a task whose body has another length than end - start + 1 appends
\* nothing, does not end with Ok, and makes the download return an error;
\* stated for responses with a partial-content status.  The code never
\* compares the two lengths, so this is violated.
C7_LengthMismatchFails ==
    \A t \in DOMAIN tasks :
        (/\ HasBody(t)
         /\ tasks[t].status = "partial"
         /\ Len(tasks[t].chunk) # RangeLen(t))
            => /\ Deposited(t) = <<>>
               /\ tasks[t].pc # "ok"
               /\ Returned => result.kind = "Err"

\* C8: a task whose response has an error status appends nothing, does not
\* end with Ok, and makes the download return an error.  The code never
\* looks at the status, so this is violated.
C8_BadStatusFails ==
    \A t \in DOMAIN tasks :
        tasks[t].status = "error"
            => /\ \A k \in DOMAIN owner : owner[k] # t
               /\ tasks[t].pc # "ok"
               /\ Returned => result.kind = "Err"

\* C9: at most one task is appending at any time, and it holds the lock; the
\* bytes of each task form one contiguous block of the buffer; what a task
\* has appended is the part of its chunk it has copied so far, so a task
\* that ended with Ok has its whole chunk in the buffer exactly once.
C9_DepositsExclusive ==
    /\ \A s, t \in DOMAIN tasks :
          (tasks[s].pc = "append" /\ tasks[t].pc = "append") => s = t
    /\ \A t \in DOMAIN tasks : tasks[t].pc = "append" <=> lock = t
    /\ \A j, k \in DOMAIN owner :
          (j < k /\ owner[j] = owner[k])
              => \A m \in j..k : owner[m] = owner[j]
    /\ \A t \in DOMAIN tasks :
          Deposited(t) = SubSeq(tasks[t].chunk, 1, tasks[t].pos)
    /\ \A t \in DOMAIN tasks :
          tasks[t].pc = "ok" => Deposited(t) = tasks[t].chunk
    /\ Len(data) = Len(owner)

\* Witness of C9: a task is in the middle of its copy while another one,
\* with a chunk of at least two bytes, waits for the lock.
C9_Witness ==
    \E s, t \in DOMAIN tasks :
        /\ s # t
        /\ tasks[s].pc = "append"
        /\ tasks[s].pos >= 1 /\ tasks[s].pos < Len(tasks[s].chunk)
        /\ tasks[t].pc = "lock"
        /\ Len(tasks[t].chunk) >= 2

\* C10: when download_file has returned, with a buffer or with an error,
\* every spawned task has settled, the lock is free, and no task can append
\* to the buffer any more.
C10_SettledAtReturn ==
    Returned
        => /\ \A t \in DOMAIN tasks : Settled(t)
           /\ lock = 0
           /\ ~ ENABLED (\E t \in DOMAIN tasks : TaskAppend(t))

\* Witness of C10: a download with at least two tasks has returned, one of
\* the tasks having failed and another one having appended its chunk.
C10_Witness ==
    /\ Returned
    /\ \E s, t \in DOMAIN tasks :
          /\ tasks[s].pc = "failed"
          /\ tasks[t].pc = "ok" /\ Deposited(t) # <<>>

\* C11: under fair scheduling, and with every request answered or failed,
\* download_file eventually returns, with a buffer or with an error; a
\* failed task does not leave the join waiting.
C11_EventuallyReturns == <>Returned

\* Witness of C11: the call has returned although one of its tasks failed
\* while another one was still running (it later appended its chunk).
C11_Witness ==
    /\ Returned
    /\ Len(tasks) >= 2
    /\ tasks[1].pc = "failed"
    /\ \E t \in DOMAIN tasks : tasks[t].pc = "ok" /\ tasks[t].pos >= 1

\* ceil(total_size / chunk_size)
NumRanges == (total_size + chunk_size - 1) \div chunk_size

\* C13: download_file awaits the tasks only after it has spawned all of
\* them; a task holds the lock only after its body has arrived; and whatever
\* the other tasks are doing (waiting, holding the lock, ended), a task can
\* send its request, and a request that was sent can be answered or fail and
\* its body can arrive: no request waits for another task.
C13_RequestsIndependent ==
    /\ pc = "join" => (i >= total_size /\ Len(tasks) = NumRanges)
    /\ \A t \in DOMAIN tasks :
          lock = t => (HasBody(t) /\ tasks[t].pc = "append")
    /\ \A t \in DOMAIN tasks :
          /\ tasks[t].pc = "spawned" => ENABLED TaskSend(t)
          /\ tasks[t].pc = "sent" =>
                (ENABLED TaskResponse(t) /\ ENABLED TaskSendError(t))
          /\ tasks[t].pc = "body" =>
                (ENABLED TaskBody(t) /\ ENABLED TaskBodyError(t))

\* Witness of C13: while download_file awaits the join, the requests of the
\* first two of three ranges are in flight, and the third task, spawned last,
\* has its body and holds the lock.
C13_Witness ==
    /\ pc = "join"
    /\ Len(tasks) = 3
    /\ tasks[1].pc = "sent" /\ tasks[2].pc = "sent"
    /\ tasks[3].pc = "append" /\ lock = 3

\* The number of tasks whose future still exists.
Unsettled == Cardinality({t \in DOMAIN tasks : ~ Settled(t)})

\* C14: the Arc has one reference for download_file and one per task that
\* has not ended, so after the join download_file holds the only one:
\* Arc::try_unwrap succeeds and "Failed to unwrap Arc" is never returned.
C14_UnwrapSucceeds ==
    /\ (pc # "start" /\ result.error # "send") => strong = 1 + Unsettled
    /\ pc = "unwrap" => strong = 1
    /\ result.error # "Failed to unwrap Arc"
    /\ (Returned /\ result.error # "send") => result = Ok(data)

\* Witness of C14: the Arc was unwrapped after a join over at least two
\* tasks, one of which had failed.
C14_Witness ==
    /\ Returned /\ result.kind = "Ok"
    /\ Len(tasks) >= 2
    /\ \E t \in DOMAIN tasks : tasks[t].pc = "failed"
    /\ strong = 1

\* The initial GET succeeded and its response carried no content length: the
\* resource is not empty, and total_size is not its length.
NoContentLength ==
    /\ pc # "start" /\ result.error # "send"
    /\ resource_len > 0
    /\ total_size # resource_len

\* C16: without a content length total_size is 0, no task is spawned, no
\* ranged request is sent, and download_file returns Ok with an empty
\* buffer, although the resource is not empty.
C16_NoLengthMeansEmpty ==
    NoContentLength
        => /\ total_size = 0
           /\ tasks = <<>>
           /\ BagToSet(requests) = {NoRange}
           /\ pc = "join" => ENABLED Join
           /\ Returned => (result.kind = "Ok" /\ result.buf = <<>>)

\* Witness of C16: the download of a non-empty resource has returned an
\* empty buffer as success.
C16_Witness ==
    /\ NoContentLength
    /\ Returned
    /\ result = Ok(<<>>)

\* What a call of download_file satisfies when it runs alone (C4, C5, C9,
\* C10, C14), and every byte of its buffer was appended by one of its tasks.
CallSound ==
    /\ C4_RangesTile
    /\ C5_OneRangedGetPerRange
    /\ C9_DepositsExclusive
    /\ C10_SettledAtReturn
    /\ C14_UnwrapSucceeds
    /\ \A k \in DOMAIN owner : owner[k] \in DOMAIN tasks
    /\ result.kind = "Ok" => result.buf = data

\* A step of one call leaves the locals of the other call as they are, and
\* passing from one call to the other changes the locals of neither.
CallFrame ==
    IF active' = active
    THEN other' = other
    ELSE other' = CallLocals /\ CallLocals' = other

\* C12: with two calls of download_file running concurrently, under every
\* interleaving, each call satisfies what a call running alone satisfies,
\* its buffer holds only bytes its own tasks appended, and no step of one
\* call changes anything of the other.
C12_CallsIndependent == [] CallSound /\ [][CallFrame]_vars

\* Witness of C12: both calls have a task holding the lock of the call's
\* own Mutex at the same time, while another task of each call has already
\* appended its chunk.
C12_Witness ==
    /\ other # NoCall
    /\ lock # 0 /\ Len(data) >= 1
    /\ other.lock # 0 /\ Len(other.data) >= 1

\* A format that can be downloaded as audio: extension m4a, a size (exact
\* or, without an exact one, approximate) and a URL.
IsCandidate(f) ==
    /\ f.ext = Some("m4a")
    /\ f.filesize # None \/ f.filesize_approx # None
    /\ f.url # None

FormatSize(f) ==
    IF f.filesize # None THEN f.filesize[1] ELSE f.filesize_approx[1]

\* What the step that selects the audio track does.
SelectsSmallest ==
    step = "select" =>
        IF \E k \in DOMAIN formats : IsCandidate(formats[k])
        THEN \E k \in DOMAIN formats :
                /\ IsCandidate(formats[k])
                /\ audio' = [size |-> FormatSize(formats[k]),
                             url |-> formats[k].url[1]]
                /\ \A j \in DOMAIN formats :
                      IsCandidate(formats[j])
                          => FormatSize(formats[k]) <= FormatSize(formats[j])
        ELSE step' = "panic" /\ audio' = NoAudio

\* C15: the track selected is a format with extension m4a, a size and a URL
\* whose size is minimal among these; without such a format main ends and
\* download_file is never called; and download_file is only ever called
\* with a selected track.
C15_SmallestM4a ==
    /\ [][SelectsSmallest]_vars
    /\ [](pc # "idle" => audio # NoAudio)
    /\ []((step = "panic" /\ audio = NoAudio) => pc = "idle")

\* Witness of C15: the second of the formats, only approximately sized but
\* smaller than the first, was selected and has been downloaded.
C15_Witness ==
    /\ audio = [size |-> 1, url |-> "u2"]
    /\ pc = "returned"
    /\ step = "transcribe"

\* The line read is y or Y between whitespace.
AnsweredYes ==
    \E k \in DOMAIN input :
        /\ input[k] \in {"y", "Y"}
        /\ \A j \in DOMAIN input : j # k => input[j] \in Whitespace

\* C17: download_file is called only with a selected track below 25,000,000
\* bytes and after the answer y; a transcription request is sent only after
\* download_file returned Ok, and carries the buffer it returned; after any
\* other answer, or with a track of 25,000,000 bytes or more, there is
\* neither a download nor a transcription request.
C17_StepsOrdered ==
    /\ pc # "idle" =>
          /\ audio # NoAudio
          /\ audio.size < 25000000
          /\ AnsweredYes
    /\ uploaded # <<>> =>
          /\ pc = "returned" /\ result.kind = "Ok"
          /\ uploaded = <<result.buf>>
    /\ step \in {"transcribe", "write", "done"} =>
          (pc = "returned" /\ result.kind = "Ok")
    /\ (step \in {"exit", "declined"} \/ audio.size >= 25000000
            \/ (input # <<>> /\ ~ AnsweredYes)) =>
          /\ pc = "idle"
          /\ requests = EmptyBag
          /\ uploaded = <<>>
    /\ step = "exit" <=> (audio.size >= 25000000 /\ step # "check_size")
    /\ step = "declined" => ~ AnsweredYes

\* Witness of C17: after the answer " y " a track of 2 bytes was downloaded
\* and transcribed.
C17_Witness ==
    /\ step = "done"
    /\ input = <<" ", "y", " ", "\n">>
    /\ audio.size = 2
    /\ uploaded = <<result.buf>>
    /\ result.buf # <<>>

\* C18: a file that exists at the output path changes only in the step
\* that writes the transcription received.  Violated: File::create at line
\* 44 truncates it when main starts.
C18_OutputUntouched ==
    [][(file.exists /\ file' # file)
          => (step = "write" /\ output_file = "open")]_vars
====
